---- MODULE Spec2Model ----
(***************************************************************************)
(* Booking reservation and payment reconciliation core of the salon app:   *)
(* createBooking (payment verification, validation, guest identity, the    *)
(* reservation transaction, refund compensation, confirmation enqueue),    *)
(* updateBooking (status change, stylist assignment, payment status) and   *)
(* checkInBooking, addBookingPayment, the reminder job                      *)
(* (reminderService.checkAndSendReminders) and the balance of the admin    *)
(* page's RecordPaymentDialog and its payment by cash or card, over the    *)
(* Booking, Payment, User and Notification tables and the payment          *)
(* gateway's refund log and payment intents.                               *)
(*                                                                         *)
(* Every await of a handler that reads or writes shared state is a step    *)
(* of its own, so that requests interleave as they do on the server.       *)
(***************************************************************************)
EXTENDS Integers, Sequences, FiniteSets, Bags, TLC

\* ---------------------------------------------------------------- bounds
\* Total number of createBooking requests received in a behaviour.
MaxRequests == 2
\* Total number of updateBooking requests received in a behaviour.
MaxUpdates == 2
\* Total number of checkInBooking requests received in a behaviour.
MaxCheckIns == 1

\* Handlers (createBooking and updateBooking requests) that may be in flight
\* together.
MaxInFlight == 2

\* Request slots of createBooking.
Procs == {1, 2}

\* Total number of runs of checkAndSendReminders in a behaviour.
MaxRuns == 2
\* Total number of addBookingPayment requests in a behaviour.
MaxPayments == 2

\* Slots of reminder runs: nothing keeps a run from starting while another
\* is still awaiting.
Runs == {1, 2}

\* ------------------------------------------------------------- constants
\* amount: 50.00 of the deposit Payment row.
Deposit == 50
\* Math.abs(diffMinutes) > 30 of checkInBooking.
CheckInWindow == 30

MinutesPerDay == 24 * 60

\* The status stripe.paymentIntents.retrieve reports for a payment intent:
\* intents 1 and 2 are captured, intent 3 is not. (0 stands for a request
\* without paymentIntentId.)
IntentStatus(ref) == IF ref \in {1, 2} THEN "succeeded" ELSE "requires_payment_method"

\* paymentIntent.amount, in cents, of the retrieved intent. createPaymentIntent
\* creates an intent for the amount of its request body: intent 1 was created
\* for the deposit of 5000, intent 2 for 2000.
IntentAmount(ref) == IF ref = 2 THEN 2000 ELSE 5000

\* Stylists; 0 stands for "no stylist" (stylistId null / not given).
Stylists == {1}
Dates == {1}
\* time strings "HH:mm" as <<hours, minutes>>
TimeStrings == {<<9, 0>>, <<9, 30>>}
Statuses == {"booked", "checked_in", "in_progress", "completed", "cancelled"}

\* Time string HH:mm to Date object (Epoch + Time): setHours, setMinutes on
\* the epoch; the stored value is a time of day.
ParseTime(t) == (t[1] * 60 + t[2]) % MinutesPerDay

\* The instant of an appointment, in minutes: the stored date with the hours
\* and minutes of the stored time (setUTCHours, setUTCMinutes).
AppointmentTime(b) == b.bookingDate * MinutesPerDay + b.bookingTime

VARIABLES
    bookings,       \* Booking table: sequence of rows, the id is the index
    payments,       \* Payment table: sequence of rows
    users,          \* User table: sequence of rows, the id is the index
    notifications,  \* Notification table (the outbox ledger): a bag of rows
    refunds,        \* stripe.refunds.create calls received by the gateway: a bag
    req,            \* createBooking requests, one per slot
    upd,            \* the updateBooking request in flight
    response,       \* the response sent last, with what its request did
    nReq, nUpd, nChk,
    rem,            \* runs of reminderService.checkAndSendReminders, one per slot
    dlg,            \* the RecordPaymentDialog of the admin page: props and state
    nRem, nPay,
    intents         \* the gateway's payment intents created for secondary payments

vars == <<bookings, payments, users, notifications, refunds, req, upd, response, nReq, nUpd, nChk,
          rem, dlg, nRem, nPay, intents>>
tables == <<bookings, payments, users, notifications, refunds>>
\* What the handlers of createBooking, updateBooking and checkInBooking never touch.
extra == <<rem, dlg, nRem, nPay, intents>>

NoBooking == [customerId |-> 0, stylistId |-> 0, bookingDate |-> 0, bookingTime |-> 0,
              status |-> "none"]

IdleReq == [pc |-> "idle", paymentIntentId |-> 0, stylistId |-> 0, date |-> 0,
            time |-> <<0, 0>>, userId |-> 0, guestEmail |-> "", smsConsent |-> TRUE,
            selection |-> "", verified |-> FALSE, txOpen |-> FALSE,
            txError |-> "none", refund |-> "none", result |-> 0]

IdleUpd == [pc |-> "idle", id |-> 0, status |-> "", stylistId |-> 0,
            paymentStatus |-> "", booking |-> NoBooking]

\* A reminder run: the instant it read, and the bookings it fetched and has
\* still to handle, each with its customer as included by the query.
IdleRun == [pc |-> "idle", now |-> [day |-> 0, hour |-> 0], queue |-> <<>>]

\* The dialog before it is rendered.
NoDialog == [servicePrice |-> 0, payments |-> <<>>, rendered |-> FALSE,
             totalPaid |-> 0, remainingBalance |-> 0,
             id |-> 0, open |-> FALSE, amount |-> 0, method |-> "cash", clientSecret |-> 0]

\* A response: the handler that sent it, its status code (and message), and
\* for createBooking what the request did: whether the payment was verified,
\* the error that aborted the transaction, the refund call's outcome, the id
\* of the Booking committed; for checkInBooking, once the time is validated,
\* the Booking looked up and the instant read from the clock.
NoResponse == [op |-> "none", code |-> "none", verified |-> FALSE, txError |-> "none",
               refund |-> "none", result |-> 0, at |-> 0]

\* req.body and req.user of createBooking. The logged-in customer (user 1)
\* books a stylist or none, with either payment, at either time; a guest
\* (e-mail e2) books without a stylist, consenting to notifications
\* (guestDetails.smsConsent absent or true) or not. Each way of being invalid
\* is tried with the other fields valid.
ValidRequests ==
    [paymentIntentId : {1}, stylistId : Stylists \cup {0}, date : Dates,
     time : {<<9, 0>>}, userId : {1}, guestEmail : {""}, smsConsent : {TRUE}, selection : {"ok"}]
    \cup
    [paymentIntentId : {1, 2}, stylistId : Stylists, date : Dates,
     time : {<<9, 0>>}, userId : {1}, guestEmail : {""}, smsConsent : {TRUE}, selection : {"ok"}]
    \cup
    [paymentIntentId : {1}, stylistId : Stylists, date : Dates,
     time : {<<9, 30>>}, userId : {1}, guestEmail : {""}, smsConsent : {TRUE}, selection : {"ok"}]
    \cup
    [paymentIntentId : {2}, stylistId : {0}, date : Dates,
     time : {<<9, 0>>}, userId : {0}, guestEmail : {"e2"}, smsConsent : BOOLEAN,
     selection : {"ok"}]
InvalidRequests ==
    [paymentIntentId : {0, 3}, stylistId : {1}, date : Dates,
     time : {<<9, 0>>}, userId : {1}, guestEmail : {""}, smsConsent : {TRUE}, selection : {"ok"}]
    \cup
    [paymentIntentId : {2}, stylistId : {1}, date : Dates,
     time : {<<9, 0>>}, userId : {1}, guestEmail : {""}, smsConsent : {TRUE},
     selection : {"bad_category", "bad_style"}]
    \cup
    [paymentIntentId : {2}, stylistId : {0}, date : Dates,
     time : {<<9, 0>>}, userId : {0}, guestEmail : {"e2"}, smsConsent : {TRUE},
     selection : {"bad_category", "bad_style"}]
    \cup
    [paymentIntentId : {2}, stylistId : {1}, date : Dates,
     time : {<<9, 0>>}, userId : {0}, guestEmail : {""}, smsConsent : {TRUE}, selection : {"ok"}]
RequestInputs == ValidRequests \cup InvalidRequests

Init ==
    /\ bookings = <<>>
    /\ payments = <<>>
    /\ users = <<[email |-> "e1", phone |-> "p1", notificationConsent |-> TRUE]>>
    /\ notifications = EmptyBag
    /\ refunds = EmptyBag
    /\ req = [p \in Procs |-> IdleReq]
    /\ upd = IdleUpd
    /\ response = NoResponse
    /\ nReq = 0
    /\ nUpd = 0
    /\ nChk = 0
    /\ rem = [r \in Runs |-> IdleRun]
    /\ dlg = NoDialog
    /\ nRem = 0
    /\ nPay = 0
    /\ intents = <<>>

\* A write that replaces the rows of the table by `rows`.
Add_Replaces(table, rows) == SetToBag(rows)

\* The table (a bag of rows: their order is never read) with `rows` added.
Add(table, rows) == table (+) SetToBag(rows)

\* res.status(code).json(...); return: the handler ends and its slot is free.
Respond(p, r, code) ==
    /\ req' = [req EXCEPT ![p] = IdleReq]
    /\ response' = [op |-> "createBooking", code |-> code, verified |-> r.verified,
                    txError |-> r.txError, refund |-> r.refund, result |-> r.result,
                    at |-> 0]

\* The handler goes on to its next await with the locals r.
Continue(p, r) ==
    /\ req' = [req EXCEPT ![p] = r]
    /\ UNCHANGED response

\* --------------------------------------------------------- createBooking

\* A check that rejects only a cancelled intent.
PaymentNotSucceeded_OnlyCanceled(status) == status = "canceled"

\* paymentIntent.status !== 'succeeded'
PaymentNotSucceeded(status) == status # "succeeded"

\* A validation that accepts every selection.
SelectionError_Accepts(selection) == ""

\* category.findUnique({ where: { id: categoryId } }) and, if a styleId is
\* supplied, style.findUnique: the message answered with 400 when the row
\* is missing, "" when the selection resolves.
SelectionError(selection) ==
    IF selection = "bad_category" THEN "400_invalid_category"
    ELSE IF selection = "bad_style" THEN "400_invalid_style"
    ELSE ""

\* The request arrives and takes the first free slot. Up to the first access
\* of a table the handler reads only the request, the gateway's record of the
\* payment intent and the catalogue, none of which another request changes,
\* so this is one step: the paymentIntentId must be present;
\* stripe.paymentIntents.retrieve answers with the intent's status or throws
\* (network error, timeout), which the outer catch answers with 500; then
\* category.findUnique and style.findUnique. The comparison
\* paymentIntent.amount !== 5000 that follows guards an empty block (it holds
\* comments only), so IntentAmount decides nothing here.
createBooking_Verify(p) ==
    /\ req[p].pc = "idle"
    /\ \A q \in Procs : q < p => req[q].pc # "idle"
    /\ nReq < MaxRequests
    /\ nReq' = nReq + 1
    /\ \E body \in RequestInputs, retrieved \in BOOLEAN :
         LET r == [IdleReq EXCEPT !.paymentIntentId = body.paymentIntentId,
                                  !.stylistId = body.stylistId,
                                  !.date = body.date,
                                  !.time = body.time,
                                  !.userId = body.userId,
                                  !.guestEmail = body.guestEmail,
                                  !.smsConsent = body.smsConsent,
                                  !.selection = body.selection]
             v == [r EXCEPT !.verified = TRUE]
         IN IF body.paymentIntentId = 0
            THEN Respond(p, r, "400_payment_required")
            ELSE IF ~retrieved
            THEN Respond(p, r, "500")
            ELSE IF PaymentNotSucceeded(IntentStatus(body.paymentIntentId))
            THEN Respond(p, r, "400_payment_validation")
            ELSE IF SelectionError(body.selection) # ""
            THEN Respond(p, v, SelectionError(body.selection))
            ELSE Continue(p, [v EXCEPT !.pc = IF body.userId = 0 THEN "guest" ELSE "tx_check"])
    /\ UNCHANGED <<tables, upd, nUpd, nChk, extra>>

\* A lookup that finds no user.
UserByEmail_None(email) == {}

\* user.findUnique({ where: { email } }): email is the unique key of User.
UserByEmail(email) == {u \in 1..Len(users) : users[u].email = email}

\* Guest booking: the details are required; user.findUnique by email.
createBooking_GuestFind(p) ==
    /\ req[p].pc = "guest"
    /\ IF req[p].guestEmail = ""
       THEN Respond(p, req[p], "400_guest_details")
       ELSE IF UserByEmail(req[p].guestEmail) # {}
            THEN Continue(p, [req[p] EXCEPT !.pc = "tx_check",
                                !.userId = CHOOSE u \in UserByEmail(req[p].guestEmail) : TRUE])
            ELSE Continue(p, [req[p] EXCEPT !.pc = "guest_create"])
    /\ UNCHANGED <<tables, upd, nReq, nUpd, nChk, extra>>

\* user.create for the guest (email is the unique key findUnique reads: a
\* second create of the same email throws) with notificationConsent:
\* guestDetails.smsConsent ?? true, then the credentials e-mail if consented.
createBooking_GuestCreate(p) ==
    /\ req[p].pc = "guest_create"
    /\ IF UserByEmail(req[p].guestEmail) # {}
       THEN /\ Respond(p, req[p], "500")
            /\ UNCHANGED <<users, notifications>>
       ELSE /\ users' = Append(users, [email |-> req[p].guestEmail, phone |-> "p2",
                                       notificationConsent |-> req[p].smsConsent])
            /\ IF ~req[p].smsConsent
               THEN /\ UNCHANGED notifications
                    /\ Continue(p, [req[p] EXCEPT !.pc = "tx_check",
                                                  !.userId = Len(users) + 1])
               ELSE \E queued \in BOOLEAN :
                      IF queued
                      THEN /\ notifications' = Add(notifications,
                                 {[channel |-> "EMAIL", bookingId |-> 0,
                                   type |-> "GUEST_CREDENTIALS"]})
                           /\ Continue(p, [req[p] EXCEPT !.pc = "tx_check",
                                                         !.userId = Len(users) + 1])
                      ELSE /\ UNCHANGED notifications
                           /\ Respond(p, req[p], "500")
    /\ UNCHANGED <<bookings, payments, refunds, upd, nReq, nUpd, nChk, extra>>

\* ------------------------------------------- the reservation transaction

\* The conflict check without its status filter.
StylistBooked_AnyStatus(rows, stylistId, date, time) ==
    \E i \in 1..Len(rows) :
        /\ rows[i].stylistId = stylistId
        /\ rows[i].bookingDate = date
        /\ rows[i].bookingTime = time

\* tx.booking.findFirst({ stylistId, bookingDate, bookingTime, status: not cancelled })
StylistBooked(rows, stylistId, date, time) ==
    \E i \in 1..Len(rows) :
        /\ rows[i].stylistId = stylistId
        /\ rows[i].bookingDate = date
        /\ rows[i].bookingTime = time
        /\ rows[i].status # "cancelled"

\* tx.booking.findFirst({ customerId, bookingDate, bookingTime, status: not cancelled })
DuplicateBooking(rows, customerId, date, time) ==
    \E i \in 1..Len(rows) :
        /\ rows[i].customerId = customerId
        /\ rows[i].bookingDate = date
        /\ rows[i].bookingTime = time
        /\ rows[i].status # "cancelled"

\* An error handled inside the transaction callback, the transaction open.
TxAbort_StillOpen(p, reason) ==
    Continue(p, [req[p] EXCEPT !.pc = "refund", !.txOpen = TRUE, !.txError = reason])

\* throw inside the transaction callback: the transaction is rolled back and
\* the catch block of createBooking runs next.
TxAbort(p, reason) ==
    Continue(p, [req[p] EXCEPT !.pc = "refund", !.txOpen = FALSE, !.txError = reason])

\* prisma.$transaction(async (tx) => ...) begins, with no isolation level
\* given; its first statement is the conflict check, which reads the rows
\* committed so far.
createBooking_TxCheck(p) ==
    /\ req[p].pc = "tx_check"
    /\ LET r == req[p]
           time == ParseTime(r.time)
       IN IF r.stylistId # 0
          THEN IF StylistBooked(bookings, r.stylistId, r.date, time)
               THEN TxAbort(p, "stylist_unavailable")
               ELSE Continue(p, [r EXCEPT !.pc = "tx_insert", !.txOpen = TRUE])
          ELSE IF DuplicateBooking(bookings, r.userId, r.date, time)
               THEN TxAbort(p, "duplicate")
               ELSE Continue(p, [r EXCEPT !.pc = "tx_insert", !.txOpen = TRUE])
    /\ UNCHANGED <<tables, upd, nReq, nUpd, nChk, extra>>

\* data of tx.booking.create
NewBooking(r) ==
    [customerId |-> r.userId, stylistId |-> r.stylistId, bookingDate |-> r.date,
     bookingTime |-> ParseTime(r.time), status |-> "booked"]

\* The deposit recorded in minor units.
DepositPayment_Cents(bookingId, paymentIntentId) ==
    [bookingId |-> bookingId, amount |-> Deposit * 100, stripePaymentId |-> paymentIntentId,
     status |-> "succeeded"]

\* data of tx.payment.create
DepositPayment(bookingId, paymentIntentId) ==
    [bookingId |-> bookingId, amount |-> Deposit, stripePaymentId |-> paymentIntentId,
     status |-> "succeeded"]

\* A booking insert that is not part of the transaction survives the abort.
Rollback_KeepsBooking(rows, pending) == Append(rows, pending)

\* The Booking table after a transaction that wrote `pending` is rolled back.
Rollback(rows, pending) == rows

\* tx.booking.create and tx.payment.create, then the callback returns and the
\* transaction commits: the Booking and its Payment become visible together.
\* Rows written inside the transaction are not visible to other requests
\* before the commit; if the payment insert throws, the transaction is rolled
\* back.
createBooking_TxInsert(p) ==
    /\ req[p].pc = "tx_insert"
    /\ \E inserted \in BOOLEAN :
         IF inserted
         THEN /\ bookings' = Append(bookings, NewBooking(req[p]))
              /\ payments' = Append(payments,
                                    DepositPayment(Len(bookings) + 1, req[p].paymentIntentId))
              /\ Continue(p, [req[p] EXCEPT !.pc = "notify", !.txOpen = FALSE,
                                            !.result = Len(bookings) + 1])
         ELSE /\ bookings' = Rollback(bookings, NewBooking(req[p]))
              /\ UNCHANGED payments
              /\ TxAbort(p, "db_error")
    /\ UNCHANGED <<users, notifications, refunds, upd, nReq, nUpd, nChk, extra>>

\* A refund call that does not name the request's payment intent.
RefundCall_NoIntent(r, ok) == [payment_intent |-> 0, ok |-> ok]

\* stripe.refunds.create({ payment_intent: paymentIntentId })
RefundCall(r, ok) == [payment_intent |-> r.paymentIntentId, ok |-> ok]

\* A failed refund answered as a server error.
AbortResponse_Masked(reason, refunded) ==
    IF ~refunded THEN "500"
    ELSE CASE reason = "stylist_unavailable" -> "409_stylist_unavailable"
           [] reason = "duplicate" -> "409_duplicate"
           [] OTHER -> "409_booking_failed"

\* res.status(409).json({ message: transactionError.message })
AbortResponse(reason, refunded) ==
    CASE reason = "stylist_unavailable" -> "409_stylist_unavailable"
      [] reason = "duplicate" -> "409_duplicate"
      [] OTHER -> "409_booking_failed"

\* A handler that calls the refund again when it has failed.
AfterRefund_Retries(p, ok) ==
    IF ok
    THEN Respond(p, [req[p] EXCEPT !.refund = "ok"], AbortResponse(req[p].txError, ok))
    ELSE Continue(p, [req[p] EXCEPT !.refund = "failed"])

\* A handler that answers only once the refund has succeeded.
AfterRefund_WaitsForSuccess(p, ok) ==
    IF ok
    THEN Respond(p, [req[p] EXCEPT !.refund = "ok"], AbortResponse(req[p].txError, ok))
    ELSE Continue(p, [req[p] EXCEPT !.pc = "refund_failed", !.refund = "failed"])

\* After the refund call has returned or thrown (refundError is caught and
\* logged): res.status(409).json(...); return.
AfterRefund(p, ok) ==
    Respond(p, [req[p] EXCEPT !.refund = IF ok THEN "ok" ELSE "failed"],
            AbortResponse(req[p].txError, ok))

\* catch (transactionError): the refund is attempted, its failure (an error
\* of the gateway, or the timeout of the call) is only logged, and the 409
\* is sent.
createBooking_Refund(p) ==
    /\ req[p].pc = "refund"
    /\ \E ok \in BOOLEAN :
         /\ refunds' = Add(refunds, {RefundCall(req[p], ok)})
         /\ AfterRefund(p, ok)
    /\ UNCHANGED <<bookings, payments, users, notifications, upd, nReq, nUpd, nChk, extra>>

Confirmation(channel, bookingId) ==
    [channel |-> channel, bookingId |-> bookingId, type |-> "CONFIRMATION"]

\* The channels without a check of user.email and user.phone.
ConfirmationChannels_Both(user) == {"EMAIL", "SMS"}

\* if (user.email) ... 'EMAIL'; if (user.phone) ... 'SMS'
ConfirmationChannels(user) ==
    (IF user.email # "" THEN {"EMAIL"} ELSE {}) \cup (IF user.phone # "" THEN {"SMS"} ELSE {})

\* An error after the commit handled like an error of the transaction.
ServerError_Compensates(p, r) == Continue(p, [r EXCEPT !.pc = "refund"])

\* The outer catch: console.error(error); res.status(500).json(...)
ServerError(p, r) == Respond(p, r, "500")

\* After the commit: the confirmation e-mail and SMS are queued for a user
\* who consented, on the channels the user has; a failing
\* notificationQueue.add (of the SMS here) throws into the outer catch, which
\* answers 500.
createBooking_Notify(p) ==
    /\ req[p].pc = "notify"
    /\ LET user == users[req[p].userId]
           email == Confirmation("EMAIL", req[p].result)
           sms == Confirmation("SMS", req[p].result)
       IN IF ~user.notificationConsent
          THEN /\ UNCHANGED notifications
               /\ Respond(p, req[p], "201")
          ELSE \E outcome \in {"queued", "sms_fails"} :
                 LET channels == ConfirmationChannels(user)
                     failed == outcome = "sms_fails" /\ "SMS" \in channels
                 IN /\ notifications' =
                         Add(notifications,
                             {n \in {email, sms} : /\ n.channel \in channels
                                                    /\ ~(failed /\ n.channel = "SMS")})
                    /\ IF failed THEN ServerError(p, req[p]) ELSE Respond(p, req[p], "201")
    /\ UNCHANGED <<bookings, payments, users, refunds, upd, nReq, nUpd, nChk, extra>>

createBooking(p) ==
    \/ createBooking_Verify(p)
    \/ createBooking_GuestFind(p)
    \/ createBooking_GuestCreate(p)
    \/ createBooking_TxCheck(p)
    \/ createBooking_TxInsert(p)
    \/ createBooking_Refund(p)
    \/ createBooking_Notify(p)

\* --------------------------------------------------------- updateBooking

\* req.body of updateBooking. stylistId: 0 when absent, -1 for 'unassigned'.
UpdateInputs ==
    [status : Statuses, stylistId : {0}, paymentStatus : {""}]
    \cup [status : {""}, stylistId : {-1, 1}, paymentStatus : {""}]
    \cup [status : {"booked"}, stylistId : {1}, paymentStatus : {""}]
    \cup [status : {""}, stylistId : {0}, paymentStatus : {"failed"}]

\* booking.findUnique; 404 when there is no such row.
\* res.status(code).json(...) of updateBooking and checkInBooking
Answer(op, code) == response' = [NoResponse EXCEPT !.op = op, !.code = code]

updateBooking_Find ==
    /\ upd.pc = "idle"
    /\ nUpd < MaxUpdates
    /\ nUpd' = nUpd + 1
    /\ \E id \in 1..(Len(bookings) + 1), body \in UpdateInputs :
         IF id > Len(bookings)
         THEN /\ body = CHOOSE b \in UpdateInputs : TRUE
              /\ UNCHANGED upd
              /\ Answer("updateBooking", "404")
         ELSE /\ upd' = [pc |-> IF body.stylistId > 0 THEN "conflict" ELSE "write",
                         id |-> id, status |-> body.status, stylistId |-> body.stylistId,
                         paymentStatus |-> body.paymentStatus, booking |-> bookings[id]]
              /\ UNCHANGED response
    /\ UNCHANGED <<tables, req, nReq, nChk, extra>>

\* The check without id: { not: id }.
AssignConflict_IncludesSelf(rows, id, stylistId, date, time) ==
    \E i \in 1..Len(rows) :
        /\ rows[i].stylistId = stylistId
        /\ rows[i].bookingDate = date
        /\ rows[i].bookingTime = time
        /\ rows[i].status # "cancelled"

\* booking.findFirst({ stylistId, bookingDate, bookingTime, status: not cancelled, id: not id })
AssignConflict(rows, id, stylistId, date, time) ==
    \E i \in 1..Len(rows) :
        /\ i # id
        /\ rows[i].stylistId = stylistId
        /\ rows[i].bookingDate = date
        /\ rows[i].bookingTime = time
        /\ rows[i].status # "cancelled"

updateBooking_Conflict ==
    /\ upd.pc = "conflict"
    /\ IF AssignConflict(bookings, upd.id, upd.stylistId, upd.booking.bookingDate,
                         upd.booking.bookingTime)
       THEN upd' = IdleUpd /\ Answer("updateBooking", "409")
       ELSE upd' = [upd EXCEPT !.pc = "write"] /\ UNCHANGED response
    /\ UNCHANGED <<tables, req, nReq, nUpd, nChk, extra>>

\* The row after booking.update({ where: { id }, data }).
UpdatedBooking(row, status, stylistId) ==
    [row EXCEPT !.status = IF status # "" THEN status ELSE @,
                !.stylistId = IF stylistId = -1 THEN 0
                              ELSE IF stylistId > 0 THEN stylistId ELSE @]

\* customer.notificationConsent of the updated booking: the include selects
\* fullName, email and phone only, so the field is undefined.
CustomerConsent(user) == FALSE

ThankYou(channel, bookingId) ==
    [channel |-> channel, bookingId |-> bookingId, type |-> "THANK_YOU"]

\* Thank-you messages at every change of status.
ThankYouMessages_EveryChange(status, before, customer, id) ==
    IF status # "" /\ before # status
    THEN {ThankYou("EMAIL", id), ThankYou("SMS", id)}
    ELSE {}

\* if (status === 'completed' && booking.status !== 'completed'), and
\* customer.notificationConsent: the e-mail if customer.email, the SMS if
\* customer.phone.
ThankYouMessages(status, before, customer, id) ==
    IF status = "completed" /\ before # "completed" /\ CustomerConsent(customer)
    THEN {n \in {ThankYou("EMAIL", id), ThankYou("SMS", id)} :
            \/ n.channel = "EMAIL" /\ customer.email # ""
            \/ n.channel = "SMS" /\ customer.phone # ""}
    ELSE {}

\* payment.updateMany, booking.update, and the thank-you messages of a
\* change to completed.
updateBooking_Write ==
    /\ upd.pc = "write"
    /\ payments' = IF upd.paymentStatus = "" THEN payments
                   ELSE [i \in 1..Len(payments) |->
                           IF payments[i].bookingId = upd.id
                           THEN [payments[i] EXCEPT !.status = upd.paymentStatus]
                           ELSE payments[i]]
    /\ bookings' = [bookings EXCEPT ![upd.id] = UpdatedBooking(@, upd.status, upd.stylistId)]
    /\ notifications' =
         Add(notifications, ThankYouMessages(upd.status, upd.booking.status,
                                             users[bookings[upd.id].customerId], upd.id))
    /\ upd' = IdleUpd
    /\ Answer("updateBooking", "200")
    /\ UNCHANGED <<users, refunds, req, nReq, nUpd, nChk, extra>>

updateBooking ==
    \/ updateBooking_Find
    \/ updateBooking_Conflict
    \/ updateBooking_Write

\* -------------------------------------------------------- checkInBooking

\* The callers of checkInBooking: req.user
CheckInCallers == {[role |-> "admin", id |-> 0], [role |-> "customer", id |-> 2]}
\* new Date() at the check-in request, in minutes.
Instants == {1 * MinutesPerDay + 9 * 60 + d : d \in {-31, -30, 60, 61}}

Abs(x) == IF x < 0 THEN -x ELSE x

\* A window that is closed at exactly 30 minutes.
OutsideWindow_Inclusive(diffMinutes) == Abs(diffMinutes) >= CheckInWindow

\* Math.abs(diffMinutes) > 30, diffMinutes being now - appointmentTime
OutsideWindow(diffMinutes) == Abs(diffMinutes) > CheckInWindow

\* The response of checkInBooking after the time validation.
Checked(code, id, now) ==
    response' = [NoResponse EXCEPT !.op = "checkInBooking", !.code = code,
                                   !.result = id, !.at = now]

\* booking.findUnique, the authorization and time checks, booking.update.
checkInBooking ==
    /\ nChk < MaxCheckIns
    /\ nChk' = nChk + 1
    /\ \E id \in 1..(Len(bookings) + 1), caller \in CheckInCallers, now \in Instants :
         IF id > Len(bookings)
         THEN Answer("checkInBooking", "404") /\ UNCHANGED bookings
         ELSE IF caller.role # "admin" /\ bookings[id].customerId # caller.id
              THEN Answer("checkInBooking", "403") /\ UNCHANGED bookings
              ELSE IF OutsideWindow(now - AppointmentTime(bookings[id]))
                   THEN Checked("400_outside_window", id, now) /\ UNCHANGED bookings
                   ELSE /\ bookings' = [bookings EXCEPT ![id].status = "checked_in"]
                        /\ Checked("200", id, now)
    /\ UNCHANGED <<payments, users, notifications, refunds, req, upd, nReq, nUpd, extra>>

\* ------------------------------------------------------- reminderService

\* new Date() of a run: the day and getHours().
RunInstants == {[day |-> 0, hour |-> 9], [day |-> 0, hour |-> 10]}

Reminder(channel, bookingId) ==
    [channel |-> channel, bookingId |-> bookingId, type |-> "REMINDER"]

\* booking.findMany({ bookingDate within tomorrow, status: 'booked' })
DueTomorrow(rows, now) ==
    {i \in 1..Len(rows) : rows[i].bookingDate = now.day + 1 /\ rows[i].status = "booked"}

\* booking.bookingTime.getHours()
BookingHour(row) == row.bookingTime \div 60

\* The ids of a query result as a list (no orderBy: in id order here).
RECURSIVE Ascending(_)
Ascending(S) ==
    IF S = {} THEN <<>>
    ELSE LET m == CHOOSE x \in S : \A y \in S : x <= y
         IN <<m>> \o Ascending(S \ {m})

\* The run starts: it reads the clock and fetches tomorrow's bookings with
\* their customers; of these the loop handles those whose hour is the
\* current hour.
checkAndSendReminders_Find(r) ==
    /\ rem[r].pc = "idle"
    /\ \A q \in Runs : q < r => rem[q].pc # "idle"
    /\ nRem < MaxRuns
    /\ nRem' = nRem + 1
    /\ \E now \in RunInstants :
         LET ids == Ascending({i \in DueTomorrow(bookings, now) :
                                 BookingHour(bookings[i]) = now.hour})
         IN rem' = [rem EXCEPT ![r] =
                      [pc |-> "send", now |-> now,
                       queue |-> [k \in 1..Len(ids) |->
                                    [id |-> ids[k],
                                     customer |-> users[bookings[ids[k]].customerId]]]]]
    /\ UNCHANGED <<tables, req, upd, response, nReq, nUpd, nChk, dlg, nPay, intents>>

\* A duplicate check on the booking id alone.
AlreadySent_AnyKind(table, bookingId) ==
    \E n \in BagToSet(table) : n.bookingId = bookingId

\* notification.findFirst({ metadata.bookingId = id AND metadata.type = 'REMINDER' })
AlreadySent(table, bookingId) ==
    \E n \in BagToSet(table) : n.bookingId = bookingId /\ n.type = "REMINDER"

\* sendReminderForBooking returns: the loop goes on with the next booking.
NextBooking(r) == rem' = [rem EXCEPT ![r].pc = "send", ![r].queue = Tail(@)]

\* The loop takes the next booking, or ends; sendReminderForBooking returns
\* at once for a customer who opted out and when a reminder of the booking
\* is already in the Notification table.
sendReminderForBooking_Check(r) ==
    /\ rem[r].pc = "send"
    /\ IF rem[r].queue = <<>>
       THEN rem' = [rem EXCEPT ![r] = IdleRun]
       ELSE LET booking == Head(rem[r].queue)
            IN IF booking.customer.notificationConsent = FALSE
               THEN NextBooking(r)
               ELSE IF AlreadySent(notifications, booking.id)
                    THEN NextBooking(r)
                    ELSE rem' = [rem EXCEPT ![r].pc = "email"]
    /\ UNCHANGED <<tables, req, upd, response, nReq, nUpd, nChk, dlg, nRem, nPay, intents>>

\* notificationQueue.add('EMAIL', ...) when the customer has an e-mail; if it
\* throws, the catch of sendReminderForBooking logs and returns.
sendReminderForBooking_Email(r) ==
    /\ rem[r].pc = "email"
    /\ LET booking == Head(rem[r].queue)
       IN IF booking.customer.email = ""
          THEN /\ rem' = [rem EXCEPT ![r].pc = "sms"]
               /\ UNCHANGED notifications
          ELSE \E queued \in BOOLEAN :
                 IF queued
                 THEN /\ notifications' = Add(notifications, {Reminder("EMAIL", booking.id)})
                      /\ rem' = [rem EXCEPT ![r].pc = "sms"]
                 ELSE /\ UNCHANGED notifications
                      /\ NextBooking(r)
    /\ UNCHANGED <<bookings, payments, users, refunds, req, upd, response,
                   nReq, nUpd, nChk, dlg, nRem, nPay, intents>>

\* notificationQueue.add('SMS', ...) when the customer has a phone.
sendReminderForBooking_Sms(r) ==
    /\ rem[r].pc = "sms"
    /\ LET booking == Head(rem[r].queue)
       IN /\ \E queued \in BOOLEAN :
               notifications' = IF queued /\ booking.customer.phone # ""
                                THEN Add(notifications, {Reminder("SMS", booking.id)})
                                ELSE notifications
          /\ NextBooking(r)
    /\ UNCHANGED <<bookings, payments, users, refunds, req, upd, response,
                   nReq, nUpd, nChk, dlg, nRem, nPay, intents>>

checkAndSendReminders(r) ==
    \/ checkAndSendReminders_Find(r)
    \/ sendReminderForBooking_Check(r)
    \/ sendReminderForBooking_Email(r)
    \/ sendReminderForBooking_Sms(r)

\* --------------------------------------------------- RecordPaymentDialog

\* const depositAmount = 50
depositAmount == 50

\* booking.service.price of the dialog's booking.
Prices == {0, 80, 130}
\* Amounts of recorded payments, in dollars; addBookingPayment stores the
\* amount of the request as it is, whatever its sign.
Amounts == {-20, 30, 50, 80}
\* Longest list of payments of the dialog's booking.
MaxListed == 3

\* booking.payments?.reduce((sum, p) => sum + Number(p.amount), 0) || 0
RECURSIVE Reduce(_, _)
Reduce(amounts, sum) ==
    IF amounts = <<>> THEN sum ELSE Reduce(Tail(amounts), sum + Head(amounts))

Max(a, b) == IF a >= b THEN a ELSE b

\* data of payment.create in addBookingPayment: without stripePaymentId (0)
\* the payment gets the reference `cash_<timestamp>`, written -1.
RecordedPayment(bookingId, amount, stripePaymentId) ==
    [bookingId |-> bookingId, amount |-> amount,
     stripePaymentId |-> IF stripePaymentId # 0 THEN stripePaymentId ELSE -1,
     status |-> "succeeded"]

\* req.body.stripePaymentId of addBookingPayment: absent (0, a cash payment)
\* or the reference of an intent the gateway has not captured.
References == {0, 3}

\* addBookingPayment: payment.create with the amount and the stripePaymentId
\* of the request, neither of which is validated; for a booking id that does not exist the insert throws and
\* the catch answers 500. Then the booking is read back with its payments
\* and returned.
addBookingPayment ==
    /\ nPay < MaxPayments
    /\ nPay' = nPay + 1
    /\ \E id \in 1..(Len(bookings) + 1), amount \in Amounts, stripePaymentId \in References :
         IF id > Len(bookings)
         THEN /\ UNCHANGED payments
              /\ Answer("addBookingPayment", "500")
         ELSE /\ payments' = Append(payments, RecordedPayment(id, amount, stripePaymentId))
              /\ Answer("addBookingPayment", "200")
    /\ UNCHANGED <<bookings, users, notifications, refunds, req, upd, nReq, nUpd, nChk,
                   rem, dlg, nRem, intents>>

\* The balance without its floor.
RemainingBalance_NoFloor(servicePrice, totalPaid) == (servicePrice + depositAmount) - totalPaid

\* Math.max(0, (servicePrice + depositAmount) - totalPaid)
RemainingBalance(servicePrice, totalPaid) ==
    Max(0, (servicePrice + depositAmount) - totalPaid)

\* The component renders for its booking: totalPaid and remainingBalance.
RecordPaymentDialog ==
    /\ ~dlg.rendered
    /\ LET totalPaid == Reduce(dlg.payments, 0)
       IN dlg' = [dlg EXCEPT !.rendered = TRUE,
                             !.totalPaid = totalPaid,
                             !.remainingBalance = RemainingBalance(dlg.servicePrice, totalPaid),
                             !.amount = RemainingBalance(dlg.servicePrice, totalPaid)]
    /\ UNCHANGED <<tables, req, upd, response, nReq, nUpd, nChk, rem, nRem, nPay, intents>>

\* Payment intents the dialog may create in a behaviour.
MaxIntents == 2
MaxLedgerOps == 3

\* What the dialog's handlers leave alone.
besideDialog == <<bookings, users, notifications, refunds, req, upd, response,
                  nReq, nUpd, nChk, rem, nRem>>

\* The amounts of the Payment rows of a booking, as the bookings query
\* returns them in booking.payments.
PaymentAmounts(rows, bookingId) ==
    LET mine == SelectSeq(rows, LAMBDA row : row.bookingId = bookingId)
    IN [k \in 1..Len(mine) |-> mine[k].amount]

\* The dialog is opened (onOpenChange): the effect sets the amount to the
\* balance of the booking as last fetched, the method to cash and clears
\* the client secret.
onOpenChange ==
    /\ dlg.rendered /\ ~dlg.open
    /\ nPay < MaxPayments
    /\ LET listed == PaymentAmounts(payments, dlg.id)
           totalPaid == Reduce(listed, 0)
       IN dlg' = [dlg EXCEPT !.open = TRUE,
                             !.payments = listed,
                             !.totalPaid = totalPaid,
                             !.remainingBalance = RemainingBalance(dlg.servicePrice, totalPaid),
                             !.amount = RemainingBalance(dlg.servicePrice, totalPaid),
                             !.method = "cash",
                             !.clientSecret = 0]
    /\ UNCHANGED <<besideDialog, payments, nPay, intents>>

\* The Amount Due field: setAmount(Number(e.target.value)); the field is
\* disabled once the Stripe payment is initialized.
setAmount ==
    /\ dlg.open /\ dlg.clientSecret = 0
    /\ \E value \in Amounts : dlg' = [dlg EXCEPT !.amount = value]
    /\ UNCHANGED <<besideDialog, payments, nPay, intents>>

\* The method radio group, disabled once the Stripe payment is initialized.
setMethod ==
    /\ dlg.open /\ dlg.clientSecret = 0
    /\ \E v \in {"cash", "stripe"} : dlg' = [dlg EXCEPT !.method = v, !.clientSecret = 0]
    /\ UNCHANGED <<besideDialog, payments, nPay, intents>>

\* The bookingService.addPayment request of onRecordPayment, handled by
\* addBookingPayment: payment.create, or no row when the request fails.
onRecordPayment(amount, stripePaymentId) ==
    /\ nPay' = nPay + 1
    /\ \E recorded \in BOOLEAN :
         payments' = IF recorded
                     THEN Append(payments, RecordedPayment(dlg.id, amount, stripePaymentId))
                     ELSE payments

\* Confirm Cash Payment: onRecordPayment(amount, 'cash'), setOpen(false).
handleCashSubmit ==
    /\ dlg.open /\ dlg.method = "cash"
    /\ onRecordPayment(dlg.amount, 0)
    /\ dlg' = [dlg EXCEPT !.open = FALSE]
    /\ UNCHANGED <<besideDialog, intents>>

\* The charge without the processing fee.
AmountInCents_NoFee(amount) == amount * 100

\* processingFee = amount * 0.035; totalCharge = amount + processingFee;
\* Math.round(totalCharge * 100), for an amount in whole dollars:
\* amount * 103.5 rounded half up.
AmountInCents(amount) == (amount * 1035 + 5) \div 10

\* The reference of the k-th payment intent created for a secondary payment.
IntentId(k) == 10 + k

\* Proceed to Payment (disabled while amount <= 0): the fee is added, and
\* createBookingPaymentIntent has the gateway create an intent of that many
\* cents for the booking; the client secret locks amount and method. If the
\* request fails nothing changes.
handleInitializeStripe ==
    /\ dlg.open /\ dlg.method = "stripe" /\ dlg.clientSecret = 0
    /\ dlg.amount > 0
    /\ Len(intents) < MaxIntents
    /\ \E created \in BOOLEAN :
         IF created
         THEN /\ intents' = Append(intents, [bookingId |-> dlg.id,
                                             amount |-> AmountInCents(dlg.amount),
                                             status |-> "requires_payment_method"])
              /\ dlg' = [dlg EXCEPT !.clientSecret = IntentId(Len(intents) + 1)]
         ELSE UNCHANGED <<intents, dlg>>
    /\ UNCHANGED <<besideDialog, payments, nPay>>

\* The payment form confirmed the intent of the client secret, which the
\* gateway charges for the intent's amount, and
\* onRecordPayment(amount, 'stripe', paymentIntentId), setOpen(false).
handleStripeSuccess ==
    /\ dlg.open /\ dlg.clientSecret # 0
    /\ LET k == dlg.clientSecret - IntentId(0)
       IN intents' = [intents EXCEPT ![k].status = "succeeded"]
    /\ onRecordPayment(dlg.amount, dlg.clientSecret)
    /\ dlg' = [dlg EXCEPT !.open = FALSE]
    /\ UNCHANGED besideDialog

\* ------------------------------------------------------- specifications

InFlight ==
    Cardinality({p \in Procs : req[p].pc # "idle"}) + (IF upd.pc = "idle" THEN 0 ELSE 1)

\* Every guest in flight left guestDetails.smsConsent at its default.
DefaultConsent == \A p \in Procs : req[p].smsConsent

Next ==
    \/ \E p \in Procs : createBooking(p) /\ InFlight' <= MaxInFlight /\ DefaultConsent'
    \/ updateBooking /\ InFlight' <= MaxInFlight
    \/ checkInBooking

\* Requests arrive at any time and their steps interleave freely; guests
\* consent to notifications.
Spec == Init /\ [][Next]_vars

\* Only reservation requests, interleaving freely.
NextCreate == \E p \in Procs : createBooking(p)
SpecCreate == Init /\ [][NextCreate]_vars

\* The same, where an awaited stripe.refunds.create settles: it returns, or
\* throws (at the latest when the client's request timeout expires), and the
\* handler resumes.
RefundSettles == \A p \in Procs : WF_vars(createBooking_Refund(p))
SpecCreateFair == Init /\ [][NextCreate]_vars /\ RefundSettles

\* One request at a time: a request is received only when none is in flight.
NextSeq ==
    \/ \E p \in Procs : createBooking(p) /\ InFlight' <= 1
    \/ updateBooking /\ InFlight' <= 1
    \/ checkInBooking /\ InFlight = 0
SpecSeq == Init /\ [][NextSeq]_vars

\* Reservations and stylist assignments (updateBooking requests that carry
\* only stylistId), interleaving freely: no Booking is ever cancelled.
OnlyAssignment == upd.status = "" /\ upd.paymentStatus = ""
NextAssign ==
    \/ \E p \in Procs : createBooking(p) /\ InFlight' <= MaxInFlight /\ DefaultConsent'
    \/ updateBooking /\ InFlight' <= MaxInFlight /\ OnlyAssignment'
SpecAssign == Init /\ [][NextAssign]_vars

\* No request is in flight, no run under way, none received so far.
NothingRunning ==
    /\ req = [p \in Procs |-> IdleReq]
    /\ upd = IdleUpd
    /\ response = NoResponse
    /\ rem = [r \in Runs |-> IdleRun]
    /\ nReq = 0 /\ nUpd = 0 /\ nChk = 0 /\ nRem = 0 /\ nPay = 0
    /\ intents = <<>>

\* The reminder job over a Booking table as reservations and status updates
\* leave it: one or two Bookings of the customer, tomorrow or the day after,
\* at 09:00 or 10:00, in any status, each with its deposit; the customer has
\* consented to notifications or opted out.
ReminderRows ==
    [customerId : {1}, stylistId : {0}, bookingDate : {1, 2}, bookingTime : {9 * 60, 10 * 60},
     status : Statuses]
InitRemind ==
    /\ bookings \in {<<a>> : a \in ReminderRows} \cup {<<a, b>> : a, b \in ReminderRows}
    /\ payments = [i \in 1..Len(bookings) |-> DepositPayment(i, i)]
    /\ users \in {<<[email |-> "e1", phone |-> "p1", notificationConsent |-> c]>> : c \in BOOLEAN}
    /\ notifications = EmptyBag
    /\ refunds = EmptyBag
    /\ NothingRunning
    /\ dlg = NoDialog
NextRemind == \E r \in Runs : checkAndSendReminders(r)
SpecRemind == InitRemind /\ [][NextRemind]_vars

\* The reminder job over the same Booking tables with the ledger as the
\* reservations left it: the confirmation e-mail and SMS of every Booking,
\* enqueued when the customer has consented.
InitDedup ==
    /\ bookings \in {<<a>> : a \in ReminderRows} \cup {<<a, b>> : a, b \in ReminderRows}
    /\ payments = [i \in 1..Len(bookings) |-> DepositPayment(i, i)]
    /\ users \in {<<[email |-> "e1", phone |-> "p1", notificationConsent |-> c]>> : c \in BOOLEAN}
    /\ notifications =
         IF users[1].notificationConsent
         THEN SetToBag({Confirmation(ch, i) : ch \in {"EMAIL", "SMS"}, i \in 1..Len(bookings)})
         ELSE EmptyBag
    /\ refunds = EmptyBag
    /\ NothingRunning
    /\ dlg = NoDialog
SpecDedup == InitDedup /\ [][NextRemind]_vars

\* Reservations, interleaving freely, of a registered customer who has or
\* lacks an e-mail address and a phone number and has consented to
\* notifications or opted out, and of guests.
InitNotify ==
    /\ bookings = <<>>
    /\ payments = <<>>
    /\ users \in {<<[email |-> e, phone |-> ph, notificationConsent |-> c]>> :
                     e \in {"", "e1"}, ph \in {"", "p1"}, c \in BOOLEAN}
    /\ notifications = EmptyBag
    /\ refunds = EmptyBag
    /\ NothingRunning
    /\ dlg = NoDialog
SpecNotify == InitNotify /\ [][NextCreate]_vars

\* Reservations, one at a time, and payments recorded for them.
NextPay ==
    \/ \E p \in Procs : createBooking(p) /\ InFlight' <= 1
    \/ addBookingPayment
SpecPay == Init /\ [][NextPay]_vars

\* The dialog's balance for every service price and every list of up to
\* MaxListed recorded amounts.
RECURSIVE Lists(_)
Lists(n) ==
    IF n = 0 THEN {<<>>}
    ELSE Lists(n - 1) \cup {Append(l, a) : l \in Lists(n - 1), a \in Amounts}
InitDialog ==
    /\ bookings = <<>>
    /\ payments = <<>>
    /\ users = <<[email |-> "e1", phone |-> "p1", notificationConsent |-> TRUE]>>
    /\ notifications = EmptyBag
    /\ refunds = EmptyBag
    /\ NothingRunning
    /\ dlg \in [servicePrice : Prices, payments : Lists(MaxListed), rendered : {FALSE},
                 totalPaid : {0}, remainingBalance : {0},
                 id : {0}, open : {FALSE}, amount : {0}, method : {"cash"}, clientSecret : {0}]
NextDialog == RecordPaymentDialog
SpecDialog == InitDialog /\ [][NextDialog]_vars

\* Every operation that reaches the Notification table, from the empty
\* database: reservations, updates, check-ins, recorded payments and
\* reminder runs, up to MaxLedgerOps of them in all, of which up to
\* MaxInFlight requests or runs are under way at a time.
Busy == InFlight + Cardinality({r \in Runs : rem[r].pc # "idle"})
OpsStarted == nReq + nUpd + nChk + nPay + nRem
NextLedger ==
    /\ \/ \E p \in Procs : createBooking(p)
       \/ updateBooking
       \/ checkInBooking
       \/ addBookingPayment
       \/ \E r \in Runs : checkAndSendReminders(r)
    /\ Busy' <= MaxInFlight
    /\ OpsStarted' <= MaxLedgerOps
SpecLedger == Init /\ [][NextLedger]_vars

\* Status changes, assignments, payment-status updates and check-ins over a
\* Booking table as reservations leave it: one or two Bookings of the
\* customer at 09:00, in any status, the first with or without a stylist,
\* each with its deposit, the confirmations of the first in the ledger.
StatusRows(stylists) ==
    [customerId : {1}, stylistId : stylists, bookingDate : {1}, bookingTime : {9 * 60},
     status : Statuses]
InitStatus ==
    /\ bookings \in {<<a>> : a \in StatusRows({0, 1})}
                     \cup {<<a, b>> : a \in StatusRows({0, 1}), b \in StatusRows({0})}
    /\ payments = [i \in 1..Len(bookings) |-> DepositPayment(i, i)]
    /\ users = <<[email |-> "e1", phone |-> "p1", notificationConsent |-> TRUE]>>
    /\ notifications = SetToBag({Confirmation("EMAIL", 1), Confirmation("SMS", 1)})
    /\ refunds = EmptyBag
    /\ NothingRunning
    /\ dlg = NoDialog
NextStatus ==
    \/ updateBooking
    \/ checkInBooking
SpecStatus == InitStatus /\ [][NextStatus]_vars

\* The dialog of a booked Booking with its deposit paid, for every service
\* price: opened, filled in, paid by cash or by card, and opened again.
InitCharge ==
    /\ bookings = <<[customerId |-> 1, stylistId |-> 0, bookingDate |-> 1,
                     bookingTime |-> 9 * 60, status |-> "booked"]>>
    /\ payments = <<DepositPayment(1, 1)>>
    /\ users = <<[email |-> "e1", phone |-> "p1", notificationConsent |-> TRUE]>>
    /\ notifications = EmptyBag
    /\ refunds = EmptyBag
    /\ NothingRunning
    /\ dlg \in [servicePrice : Prices, payments : {<<Deposit>>}, rendered : {FALSE},
                 totalPaid : {0}, remainingBalance : {0},
                 id : {1}, open : {FALSE}, amount : {0}, method : {"cash"}, clientSecret : {0}]
NextCharge ==
    \/ RecordPaymentDialog
    \/ onOpenChange
    \/ setAmount
    \/ setMethod
    \/ handleCashSubmit
    \/ handleInitializeStripe
    \/ handleStripeSuccess
SpecCharge == InitCharge /\ [][NextCharge]_vars

\* ================================================================ claims

SameSlot(a, b) == a.bookingDate = b.bookingDate /\ a.bookingTime = b.bookingTime
Active(b) == b.status # "cancelled"
PaymentsOf(rows, bookingId) == {j \in 1..Len(rows) : rows[j].bookingId = bookingId}
\* The deposit of a booking is its first Payment row.
DepositRef(bookingId) ==
    LET js == PaymentsOf(payments, bookingId)
    IN payments[CHOOSE j \in js : \A k \in js : j <= k].stripePaymentId

\* C1. Of two concurrent createBooking requests for the same (stylistId,
\* bookingDate, bookingTime), each with its own payment reference, at most one
\* commits a Booking: no two active Bookings paid with different references
\* hold the same stylist slot. (Checked where only reservations run, so that
\* two such Bookings can only come from two reservations.)
C1_AtMostOneCommits ==
    \A i, j \in 1..Len(bookings) :
        (/\ i < j
         /\ bookings[i].stylistId # 0
         /\ bookings[i].stylistId = bookings[j].stylistId
         /\ SameSlot(bookings[i], bookings[j])
         /\ Active(bookings[i]) /\ Active(bookings[j])
         /\ PaymentsOf(payments, i) # {} /\ PaymentsOf(payments, j) # {})
        => DepositRef(i) = DepositRef(j)

\* C2. Each captured payment reference is the deposit of at most one Booking.
C2_OneBookingPerPayment ==
    \A i, j \in 1..Len(bookings) :
        (i < j /\ PaymentsOf(payments, i) # {} /\ PaymentsOf(payments, j) # {})
        => DepositRef(i) # DepositRef(j)

\* C3. Every Booking row has at least one Payment row: the Booking and its
\* deposit are inserted in one transaction, and a failing payment insert
\* leaves no Booking behind.
C3_BookingHasPayment ==
    \A i \in 1..Len(bookings) : PaymentsOf(payments, i) # {}
\* A Booking exists and a reservation has just failed at the payment insert.
C3_Witness ==
    /\ Len(bookings) >= 1
    /\ response.op = "createBooking" /\ response.txError = "db_error"

\* C4. No two Bookings with status other than cancelled have the same
\* non-null stylistId, bookingDate and bookingTime.
C4_StylistSlotExclusive ==
    \A i, j \in 1..Len(bookings) :
        (i < j /\ Active(bookings[i]) /\ Active(bookings[j]) /\ bookings[i].stylistId # 0
         /\ SameSlot(bookings[i], bookings[j]))
        => bookings[i].stylistId # bookings[j].stylistId

\* C5. A createBooking request whose payment was verified as succeeded and
\* that ends without a committed Booking has attempted a refund before its
\* failure response.
C5_RefundOnEveryFailure ==
    (response.op = "createBooking" /\ response.verified /\ response.result = 0)
    => response.refund # "none"

\* C6. When the reservation transaction aborts, nothing it wrote remains and
\* it is closed; then, outside it, exactly one refund is requested, for the
\* payment reference of that request, and the 409 response is sent in that
\* step; the handler refunds only after an abort.
C6_Codes409 == {"409_stylist_unavailable", "409_duplicate", "409_booking_failed"}
C6_AbortThenRefund ==
    [][\A p \in Procs :
        /\ (/\ req[p].pc \in {"tx_check", "tx_insert"}
            /\ req'[p].pc # req[p].pc
            /\ req'[p].pc \notin {"tx_insert", "notify"})
           => /\ req'[p].pc = "refund"
              /\ req'[p].txError # "none"
              /\ ~req'[p].txOpen
              /\ bookings' = bookings /\ payments' = payments /\ refunds' = refunds
        /\ (req'[p].pc = "refund")
           => req[p].pc \in {"tx_check", "tx_insert", "refund"}
        /\ (req[p].pc = "refund" /\ req'[p] # req[p])
           => /\ \E ok \in BOOLEAN :
                    refunds' = refunds (+) SetToBag({[payment_intent |-> req[p].paymentIntentId,
                                                      ok |-> ok]})
              /\ bookings' = bookings /\ payments' = payments
              /\ req'[p].pc = "idle"
              /\ response'.op = "createBooking"
              /\ response'.code \in C6_Codes409
              /\ response'.result = 0
      ]_vars
\* A conflict was answered with 409 after a refund call, with a Booking in place.
C6_Witness ==
    /\ response.code = "409_stylist_unavailable"
    /\ response.refund = "ok"
    /\ BagCardinality(refunds) = 1
    /\ Len(bookings) = 1

\* C7. A createBooking request with a succeeded payment and a valid selection
\* that runs alone is blocked at the conflict check exactly when an active
\* Booking has its key: (stylistId, date, time) when a stylist is given,
\* (customerId, date, time) otherwise. A cancelled Booking never blocks.
C7_KeyTaken(r) ==
    \E i \in 1..Len(bookings) :
        /\ bookings[i].status # "cancelled"
        /\ bookings[i].bookingDate = r.date
        /\ bookings[i].bookingTime = r.time[1] * 60 + r.time[2]
        /\ IF r.stylistId # 0 THEN bookings[i].stylistId = r.stylistId
                              ELSE bookings[i].customerId = r.userId
C7_BlockedIffKeyTaken ==
    [][\A p \in Procs :
        (req[p].pc = "tx_check" /\ req'[p] # req[p])
        => /\ C7_KeyTaken(req[p]) <=> (/\ req'[p].pc = "refund"
                                      /\ req'[p].txError \in {"stylist_unavailable", "duplicate"})
           /\ ~C7_KeyTaken(req[p]) <=> req'[p].pc = "tx_insert"
      ]_vars
\* A stylist's slot was booked, cancelled, and booked again.
C7_Witness ==
    \E i, j \in 1..Len(bookings) :
        /\ i < j
        /\ bookings[i].status = "cancelled"
        /\ bookings[j].status = "booked"
        /\ bookings[i].stylistId # 0
        /\ bookings[i].stylistId = bookings[j].stylistId
        /\ SameSlot(bookings[i], bookings[j])

\* C8. A request whose payment reference is missing or whose payment is not
\* succeeded at the gateway never gets past verification, and the
\* verification step, whatever it finds (a retrieve error included), opens no
\* transaction and writes no Booking, Payment or user row and makes no refund
\* call; the request is answered with an error.
C8_Unverified == {"400_payment_required", "400_payment_validation", "500"}
C8_NoWriteWithoutPayment ==
    [][/\ \A p \in Procs :
            req'[p].pc # "idle"
            => /\ req'[p].paymentIntentId # 0
               /\ IntentStatus(req'[p].paymentIntentId) = "succeeded"
       /\ nReq' # nReq
          => /\ bookings' = bookings /\ payments' = payments /\ users' = users
             /\ refunds' = refunds /\ notifications' = notifications
             /\ \A p \in Procs : ~req'[p].txOpen \/ req'[p] = req[p]
             /\ (\A p \in Procs : req'[p] = req[p])
                => /\ response'.op = "createBooking"
                   /\ response'.result = 0 /\ response'.refund = "none"
                   /\ ~response'.verified => response'.code \in C8_Unverified
      ]_vars
\* A payment that is not succeeded was refused, with a Booking already there.
C8_Witness ==
    /\ response.op = "createBooking"
    /\ response.code = "400_payment_validation"
    /\ Len(bookings) = 1

\* C9. After an aborted transaction the response is the 409 of the abort
\* reason whether the refund succeeded or failed.
C9_ResponseOf(reason) ==
    CASE reason = "stylist_unavailable" -> "409_stylist_unavailable"
      [] reason = "duplicate" -> "409_duplicate"
      [] reason = "db_error" -> "409_booking_failed"
      [] OTHER -> "none"
C9_RefundFailureNotMasking ==
    (response.op = "createBooking" /\ response.txError # "none")
    => /\ response.refund \in {"ok", "failed"}
       /\ response.code = C9_ResponseOf(response.txError)
\* A conflict whose refund failed.
C9_Witness ==
    /\ response.op = "createBooking"
    /\ response.txError = "stylist_unavailable"
    /\ response.refund = "failed"

C11_Edges ==
    {<<"booked", "checked_in">>, <<"checked_in", "in_progress">>,
     <<"in_progress", "completed">>, <<"booked", "cancelled">>, <<"cancelled", "booked">>}
C11_OnlyStateMachineEdges ==
    [][(upd.pc = "write" /\ upd'.pc = "idle")
       => \A i \in 1..Len(bookings) :
            bookings'[i].status # bookings[i].status
            => <<bookings[i].status, bookings'[i].status>> \in C11_Edges
      ]_vars

\* C12. A checkInBooking request that reaches the time validation sets the
\* Booking's status to checked_in, and changes nothing else, when the instant
\* read is at most 30 minutes before or after the instant of the stored
\* bookingDate with the hour and minute of the stored bookingTime; at 31 or
\* more minutes on either side it answers with the out-of-window error and
\* the Booking table is unchanged. A request answered otherwise changes no
\* Booking.
C12_Diff(row, at) == at - (row.bookingDate * 24 * 60 + row.bookingTime)
C12_CheckInWindow ==
    [][nChk' # nChk
       => /\ response'.op = "checkInBooking"
          /\ IF response'.code \in {"200", "400_outside_window"}
             THEN /\ response'.result \in 1..Len(bookings)
                  /\ LET id == response'.result
                         diff == C12_Diff(bookings[id], response'.at)
                     IN /\ (diff >= -30 /\ diff <= 30)
                           => /\ response'.code = "200"
                              /\ bookings' = [bookings EXCEPT ![id].status = "checked_in"]
                        /\ (diff <= -31 \/ diff >= 31)
                           => /\ response'.code = "400_outside_window"
                              /\ bookings' = bookings
             ELSE bookings' = bookings
      ]_vars
\* A check-in exactly 30 minutes after the appointment was accepted.
C12_Witness ==
    /\ response.op = "checkInBooking" /\ response.code = "200"
    /\ bookings[response.result].status = "checked_in"
    /\ C12_Diff(bookings[response.result], response.at) = 30

C14_Sum(l) ==
    LET RECURSIVE upTo(_)
        upTo(k) == IF k = 0 THEN 0 ELSE upTo(k - 1) + l[k]
    IN upTo(Len(l))
C15_Balance(rows, bookingId) ==
    LET mine == SelectSeq(rows, LAMBDA row : row.bookingId = bookingId)
    IN RemainingBalance(80, Reduce([k \in 1..Len(mine) |-> mine[k].amount], 0))
C15_BalanceNeverIncreases ==
    [][\A i \in 1..Len(bookings) :
        C15_Balance(payments', i) <= C15_Balance(payments, i)
      ]_vars

\* C16. An updateBooking request that assigns a stylist runs the conflict
\* check before it writes: when another Booking, not cancelled, has the new
\* stylist at the Booking's date and time, the request is answered 409 and no
\* table changes; otherwise it goes on to write, and then the stylist is
\* assigned. The Booking being updated never counts as the conflict.
C16_Blocked ==
    \E i \in 1..Len(bookings) :
        /\ i # upd.id
        /\ bookings[i].stylistId = upd.stylistId
        /\ bookings[i].bookingDate = bookings[upd.id].bookingDate
        /\ bookings[i].bookingTime = bookings[upd.id].bookingTime
        /\ bookings[i].status # "cancelled"
C16_AssignChecksExclusivity ==
    [][/\ (upd.pc = "idle" /\ upd'.pc = "write") => upd'.stylistId <= 0
       /\ (upd.pc = "idle" /\ upd'.pc = "conflict") => upd'.stylistId > 0
       /\ (upd.pc = "conflict" /\ upd' # upd)
          => /\ bookings' = bookings /\ payments' = payments
             /\ notifications' = notifications
             /\ IF C16_Blocked
                THEN /\ upd'.pc = "idle"
                     /\ response'.op = "updateBooking" /\ response'.code = "409"
                ELSE /\ upd'.pc = "write"
                     /\ response' = response
       /\ (upd.pc = "write" /\ upd'.pc = "idle" /\ upd.stylistId > 0)
          => /\ bookings'[upd.id].stylistId = upd.stylistId
             /\ response'.code = "200"
      ]_vars
\* An assignment was refused with 409, and then a Booking that is active and
\* has stylist 1 passed the check of a request assigning stylist 1 to it.
C16_Witness ==
    /\ response.op = "updateBooking" /\ response.code = "409"
    /\ upd.pc = "write"
    /\ upd.stylistId = 1
    /\ bookings[upd.id].stylistId = 1
    /\ bookings[upd.id].status # "cancelled"

\* C17. No customer holds two Bookings with status other than cancelled at
\* the same bookingDate and bookingTime that have no stylist assigned.
C17_NoDuplicateUnassigned ==
    \A i, j \in 1..Len(bookings) :
        (/\ i < j
         /\ bookings[i].customerId = bookings[j].customerId
         /\ SameSlot(bookings[i], bookings[j])
         /\ bookings[i].stylistId = 0 /\ bookings[j].stylistId = 0)
        => ~(Active(bookings[i]) /\ Active(bookings[j]))

\* C18. Once an update has moved a Booking of a customer who consented to
\* notifications into completed, the Notification table holds exactly one
\* thank-you record of the Booking on the customer's e-mail channel.
C18_ThankYouOnceOnCompletion ==
    \A i \in 1..Len(bookings) :
        (/\ bookings[i].status = "completed"
         /\ users[bookings[i].customerId].notificationConsent
         /\ users[bookings[i].customerId].email # "")
        => CopiesIn([channel |-> "EMAIL", bookingId |-> i, type |-> "THANK_YOU"],
                    notifications) = 1

\* C19. A run of checkAndSendReminders takes up, for sending its reminder,
\* every Booking in status booked, checked_in or in_progress whose
\* bookingDate is the day after the run's date and whose bookingTime has the
\* run's current hour.
C19_Due(row, now) ==
    /\ row.status \in {"booked", "checked_in", "in_progress"}
    /\ row.bookingDate = now.day + 1
    /\ row.bookingTime \div 60 = now.hour
C19_EveryDueBookingCovered ==
    [][\A r \in Runs :
        (rem[r].pc = "idle" /\ rem'[r].pc = "send")
        => \A i \in 1..Len(bookings) :
             C19_Due(bookings[i], rem'[r].now)
             => \E k \in 1..Len(rem'[r].queue) : rem'[r].queue[k].id = i
      ]_vars

\* C20. The step of createBooking that follows the commit enqueues nothing
\* for a customer who opted out; for a customer who consented, a request
\* answered 201 has enqueued exactly one confirmation on EMAIL if the
\* customer has an e-mail and one on SMS if the customer has a phone, each
\* with the id of the new Booking; in no case does the step enqueue anything
\* else, or the same record twice.
C20_Confirmations(user, id) ==
    {[channel |-> "EMAIL", bookingId |-> id, type |-> "CONFIRMATION"] : x \in {user.email} \ {""}}
    \cup {[channel |-> "SMS", bookingId |-> id, type |-> "CONFIRMATION"] : x \in {user.phone} \ {""}}
C20_ConfirmationPerChannel ==
    [][\A p \in Procs :
        (req[p].pc = "notify" /\ req'[p].pc = "idle")
        => LET user == users[req[p].userId]
               expected == C20_Confirmations(user, req[p].result)
           IN /\ req[p].result \in 1..Len(bookings)
              /\ bookings[req[p].result].customerId = req[p].userId
              /\ ~user.notificationConsent
                 => notifications' = notifications /\ response'.code = "201"
              /\ (user.notificationConsent /\ response'.code = "201")
                 => notifications' = notifications (+) SetToBag(expected)
              /\ \A n \in BagToSet(notifications') :
                    CopiesIn(n, notifications') # CopiesIn(n, notifications)
                    => /\ n \in expected
                       /\ CopiesIn(n, notifications') = CopiesIn(n, notifications) + 1
      ]_vars
\* Booking 1, of a customer who consented, has its two confirmations; the
\* reservation of booking 2, of a guest who opted out, was answered 201 and
\* no notification names booking 2.
C20_Witness ==
    /\ response.op = "createBooking" /\ response.code = "201" /\ response.result = 2
    /\ Len(bookings) = 2
    /\ users[bookings[1].customerId].notificationConsent
    /\ ~users[bookings[2].customerId].notificationConsent
    /\ CopiesIn([channel |-> "EMAIL", bookingId |-> 1, type |-> "CONFIRMATION"], notifications) = 1
    /\ CopiesIn([channel |-> "SMS", bookingId |-> 1, type |-> "CONFIRMATION"], notifications) = 1
    /\ \A n \in BagToSet(notifications) : n.bookingId # 2

\* C21. A guest request (unauthenticated) whose e-mail belongs to a user goes
\* on with that user and creates none; otherwise it creates exactly one user,
\* with that e-mail, and goes on with it, or ends without a Booking; the
\* Booking it commits belongs to the user with the guest's e-mail. Users are
\* created nowhere else, and no two users ever share an e-mail, also when two
\* guest requests with the same e-mail interleave.
C21_Holder(table, email) == {u \in 1..Len(table) : table[u].email = email}
C21_GuestIdentity ==
    [][/\ \A u, v \in 1..Len(users') : users'[u].email = users'[v].email => u = v
       /\ users' # users => \E p \in Procs : req[p].pc = "guest_create" /\ req'[p] # req[p]
       /\ \A p \in Procs :
            /\ (req[p].pc = "guest" /\ req'[p].pc = "tx_check")
               => /\ users' = users
                  /\ req'[p].userId \in C21_Holder(users, req[p].guestEmail)
            /\ (req[p].pc = "guest" /\ req'[p].pc = "guest_create")
               => /\ users' = users
                  /\ C21_Holder(users, req[p].guestEmail) = {}
            /\ (req[p].pc = "guest_create" /\ req'[p] # req[p])
               => \/ /\ users' = users
                     /\ req'[p].pc = "idle" /\ response'.code = "500"
                     /\ bookings' = bookings
                  \/ /\ Len(users') = Len(users) + 1
                     /\ SubSeq(users', 1, Len(users)) = users
                     /\ users'[Len(users')].email = req[p].guestEmail
                     /\ C21_Holder(users, req[p].guestEmail) = {}
                     /\ req'[p].pc \in {"idle", "tx_check"}
                     /\ req'[p].pc = "tx_check" => req'[p].userId = Len(users')
            /\ (req[p].pc = "tx_insert" /\ req'[p].pc = "notify" /\ req[p].guestEmail # "")
               => bookings'[Len(bookings')].customerId \in C21_Holder(users, req[p].guestEmail)
      ]_vars
\* Two guest requests with the same e-mail both found no user; one has
\* created the user and the other is about to create it.
C21_Witness ==
    \E p, q \in Procs :
        /\ req[p].pc = "tx_check" /\ req[p].guestEmail = "e2" /\ req[p].userId = 2
        /\ req[q].pc = "guest_create" /\ req[q].guestEmail = "e2"
        /\ Len(users) = 2

C23_Missing(bookingId) ==
    \E channel \in {"EMAIL", "SMS"} :
        CopiesIn([channel |-> channel, bookingId |-> bookingId, type |-> "REMINDER"],
                 notifications) = 0
C23_MissingReminderRetried ==
    [][\A r \in Runs :
        (rem[r].pc = "send" /\ rem[r].queue # <<>> /\ rem'[r] # rem[r])
        => LET booking == Head(rem[r].queue)
           IN (/\ booking.customer.notificationConsent
               /\ booking.customer.email # "" /\ booking.customer.phone # ""
               /\ C23_Missing(booking.id)
               /\ \A q \in Runs \ {r} :
                     ~(rem[q].pc \in {"email", "sms"} /\ Head(rem[q].queue).id = booking.id))
              => /\ rem'[r].queue = rem[r].queue
                 /\ rem'[r].pc \in {"email", "sms"}
      ]_vars

\* C24. The step of createBooking after the commit, whether its enqueue
\* succeeds or fails, ends the request (with 201, or 500 on a failure) and
\* changes no Booking and no Payment and makes no refund call: the Booking
\* committed and its deposit stay, and the request has requested no refund.
C24_EnqueueFailureKeepsBooking ==
    [][\A p \in Procs :
        (req[p].pc = "notify" /\ req'[p] # req[p])
        => /\ req'[p].pc = "idle"
           /\ response'.op = "createBooking"
           /\ response'.code \in {"201", "500"}
           /\ response'.refund = "none"
           /\ bookings' = bookings /\ payments' = payments /\ refunds' = refunds
           /\ req[p].result \in 1..Len(bookings')
           /\ bookings'[req[p].result].status # "none"
           /\ \E j \in 1..Len(payments') :
                 /\ payments'[j].bookingId = req[p].result
                 /\ payments'[j].stripePaymentId = req[p].paymentIntentId
      ]_vars
\* The SMS enqueue failed after the commit: the request was answered 500,
\* its Booking and deposit are in place and the gateway got no refund call.
C24_Witness ==
    /\ response.op = "createBooking" /\ response.code = "500" /\ response.result = 1
    /\ Len(bookings) = 1 /\ bookings[1].status = "booked"
    /\ Len(payments) = 1 /\ payments[1].bookingId = 1
    /\ refunds = EmptyBag
    /\ CopiesIn([channel |-> "EMAIL", bookingId |-> 1, type |-> "CONFIRMATION"], notifications) = 1
    /\ CopiesIn([channel |-> "SMS", bookingId |-> 1, type |-> "CONFIRMATION"], notifications) = 0

\* C25. When an updateBooking request that assigns a stylist has written,
\* the Booking it updated, if not cancelled, is the only Booking not
\* cancelled of that stylist at its date and time, whatever createBooking
\* and updateBooking requests ran alongside it.
C25_AssignmentExclusiveUnderConcurrency ==
    [][(upd.pc = "write" /\ upd'.pc = "idle" /\ upd.stylistId > 0
        /\ bookings'[upd.id].status # "cancelled")
       => \A i \in 1..Len(bookings') :
            (/\ i # upd.id
             /\ bookings'[i].status # "cancelled"
             /\ bookings'[i].bookingDate = bookings'[upd.id].bookingDate
             /\ bookings'[i].bookingTime = bookings'[upd.id].bookingTime)
            => bookings'[i].stylistId # upd.stylistId
      ]_vars

\* C26. A createBooking request calls the gateway only while its
\* transaction is not open: the payment is retrieved in the request's first
\* step, and the transaction opens only for a request whose payment was
\* verified; the refund is called only by a request whose transaction has
\* aborted and is closed, and the refund step finds no row of that
\* transaction and writes none. An open transaction is at its inserts.
C26_GatewayCallsOutsideTransaction ==
    [][\A p \in Procs :
        /\ req'[p].txOpen => req'[p].pc = "tx_insert" /\ req'[p].verified
        /\ (req'[p].verified /\ ~req[p].verified)
           => req[p].pc = "idle" /\ ~req[p].txOpen /\ ~req'[p].txOpen
        /\ (req[p].pc = "refund" /\ req'[p] # req[p])
           => /\ ~req[p].txOpen /\ req[p].txError # "none" /\ req[p].result = 0
              /\ refunds' # refunds
              /\ bookings' = bookings /\ payments' = payments
        /\ refunds' # refunds => \E q \in Procs : req[q].pc = "refund" /\ req'[q].pc = "idle"
      ]_vars
\* A transaction that was open aborted at its inserts, and the refund was
\* then called and succeeded.
C26_Witness ==
    /\ response.op = "createBooking" /\ response.txError = "db_error"
    /\ response.refund = "ok" /\ response.verified
    /\ BagCardinality(refunds) = 1
    /\ bookings = <<>>

C28_AtMostOneRefundNoRetry ==
    [][/\ BagCardinality(refunds') <= BagCardinality(refunds) + 1
       /\ refunds' # refunds
          => \E p \in Procs :
                /\ req[p].pc = "refund" /\ req[p].refund = "none" /\ req[p].result = 0
                /\ req'[p].pc = "idle"
                /\ \E ok \in BOOLEAN :
                      /\ refunds' = refunds (+) SetToBag({[payment_intent |-> req[p].paymentIntentId,
                                                           ok |-> ok]})
                      /\ response'.refund = (IF ok THEN "ok" ELSE "failed")
       /\ \A p \in Procs :
            /\ (req[p].pc = "refund" /\ req'[p] # req[p])
               => req'[p].pc = "idle" /\ BagCardinality(refunds') = BagCardinality(refunds) + 1
            /\ req'[p].result # 0 => req'[p].pc = "notify" /\ req'[p].refund = "none"
            /\ (req[p].pc = "notify" /\ req'[p] # req[p])
               => req'[p].pc = "idle" /\ refunds' = refunds
            /\ (req'[p].verified /\ ~req[p].verified) => req[p].pc = "idle"
            /\ (req[p].pc # "idle" /\ req'[p].pc # "idle") => req'[p].verified = req[p].verified
      ]_vars
\* One request committed its Booking and the other was refused; its refund
\* failed: the gateway has received one refund call.
C28_Witness ==
    /\ nReq = 2 /\ \A p \in Procs : req[p].pc = "idle"
    /\ Len(bookings) = 1
    /\ response.op = "createBooking" /\ response.refund = "failed"
    /\ BagCardinality(refunds) = 1

\* C29. A checkInBooking request changes the status of no Booking that is
\* not in status booked: a Booking that is cancelled, completed, in_progress
\* or checked_in keeps its status.
C29_CheckInOnlyFromBooked ==
    [][nChk' # nChk
       => \A i \in 1..Len(bookings) :
            bookings[i].status # "booked" => bookings'[i].status = bookings[i].status
      ]_vars

\* C30. An updateBooking request leaves the stylist of a Booking that is
\* cancelled or completed (before the request writes, and after) as it is.
C30_Closed == {"cancelled", "completed"}
C30_NoReassignmentWhenClosed ==
    [][(upd.pc = "write" /\ upd'.pc = "idle")
       => \A i \in 1..Len(bookings) :
            (bookings[i].status \in C30_Closed /\ bookings'[i].status \in C30_Closed)
            => bookings'[i].stylistId = bookings[i].stylistId
      ]_vars

\* C31. An updateBooking request that does not set the status completed
\* (a change to checked_in, in_progress, cancelled or booked, a stylist
\* assignment or unassignment, a payment-status update) and a checkInBooking
\* request leave the Notification table as it is, in each of their steps.
C31_OnlyCompletionNotifies ==
    [][/\ nChk' # nChk => notifications' = notifications
       /\ (upd' # upd /\ (IF upd.pc = "idle" THEN upd'.status ELSE upd.status) # "completed")
          => notifications' = notifications
       /\ (nUpd' # nUpd /\ upd' = upd) => notifications' = notifications
      ]_vars
\* A Booking was cancelled by one update and restored by the next, and the
\* ledger holds the two confirmations it held at the start.
C31_Witness ==
    /\ nUpd = 2 /\ upd.pc = "idle"
    /\ response.op = "updateBooking" /\ response.code = "200"
    /\ \E i \in 1..Len(bookings) : bookings[i].status = "booked" /\ nChk = 1
    /\ BagCardinality(notifications) = 2

\* C32. A createBooking request whose category id, or supplied style id,
\* does not resolve is answered with the invalid-selection error and goes no
\* further: no request with such a selection is ever past the validation
\* (where the user row, the Booking and the Payment are written), and the
\* step that answers it leaves Booking, Payment and User as they are.
C32_Invalid == {"400_invalid_category", "400_invalid_style"}
C32_InvalidSelectionWritesNothing ==
    [][/\ \A p \in Procs : req'[p].pc # "idle" => req'[p].selection = "ok"
       /\ (nReq' # nReq /\ response' # response /\ response'.code \in C32_Invalid)
          => /\ bookings' = bookings
             /\ payments' = payments
             /\ users' = users
      ]_vars
\* After a reservation has been committed, a request with a captured payment
\* and an unknown style was answered with the error: the tables hold the one
\* Booking, its deposit and the one user.
C32_Witness ==
    /\ response.code = "400_invalid_style" /\ response.verified
    /\ nReq = 2
    /\ Len(bookings) = 1 /\ Len(payments) = 1 /\ Len(users) = 1
    /\ \A p \in Procs : req[p].pc = "idle"

\* C33. The Notification table is append-only: no step of createBooking,
\* updateBooking, checkInBooking, addBookingPayment or the reminder job
\* removes a record or lowers the number of copies of one (a modified
\* record would be its old value removed).
C33_LedgerAppendOnly ==
    [][\A n \in BagToSet(notifications) :
          CopiesIn(n, notifications') >= CopiesIn(n, notifications)]_vars
\* A reservation left its confirmations, a reminder run added the reminders,
\* and a further step was taken: all four records are in the ledger.
C33_Witness ==
    /\ BagIn(Confirmation("EMAIL", 1), notifications)
    /\ BagIn(Confirmation("SMS", 1), notifications)
    /\ BagIn(Reminder("EMAIL", 1), notifications)
    /\ BagIn(Reminder("SMS", 1), notifications)
    /\ nPay = 1
    /\ response.op = "addBookingPayment" /\ response.code = "200"

\* C34. addBookingPayment records a payment only for a completed Booking and
\* only with an amount A, 0 < A <= the outstanding balance, so that the
\* Payments of a Booking never sum to more than its service price plus the
\* deposit (at most the dearest price plus the deposit).
C34_Recorded ==
    {j \in 1..Len(payments) : \E k \in 1..(j - 1) : payments[k].bookingId = payments[j].bookingId}
C34_TotalPaid(bookingId) ==
    LET rows == SelectSeq(payments, LAMBDA r : r.bookingId = bookingId)
    IN Reduce([k \in 1..Len(rows) |-> rows[k].amount], 0)
C34_PaymentsWithinBalance ==
    \A j \in C34_Recorded :
        /\ payments[j].amount > 0
        /\ bookings[payments[j].bookingId].status = "completed"
        /\ C34_TotalPaid(payments[j].bookingId) <= (CHOOSE m \in Prices : \A q \in Prices : q <= m) + depositAmount

\* C35. No Booking is created against a payment reference that has been
\* refunded: a step that commits a Booking with its deposit Payment does so
\* for a reference of which the Refund ledger holds no successful refund.
C35_Refunded == {f.payment_intent : f \in {g \in BagToSet(refunds) : g.ok}}
C35_NoBookingOnRefundedPayment ==
    [][Len(bookings') > Len(bookings)
         => payments'[Len(payments')].stripePaymentId \notin C35_Refunded]_vars

\* C36. Every Payment row with status succeeded and a gateway reference
\* (not a cash reference) refers to a payment intent whose status at the
\* gateway is succeeded.
C36_SucceededPaymentsAreCaptured ==
    \A j \in 1..Len(payments) :
        (payments[j].status = "succeeded" /\ payments[j].stripePaymentId > 0)
        => IntentStatus(payments[j].stripePaymentId) = "succeeded"

\* C37. The answer of createBooking agrees with the stored state: the
\* request is answered 201 exactly when its Booking (with the deposit
\* Payment) was committed, and a request answered with an error (400, 409
\* or 500) has left no Booking of its own.
C37_ResponseAgreesWithState ==
    response.op = "createBooking"
    => (response.code = "201"
        <=> /\ response.result \in 1..Len(bookings)
            /\ PaymentsOf(payments, response.result) # {})

\* C38. createBooking accepts a payment reference only if the amount
\* captured for it is the deposit (5000 minor units): every deposit Payment
\* of 50.00 recorded with a committed Booking carries a reference whose
\* captured amount is 5000.
C38_DepositAmountVerified ==
    \A i \in 1..Len(bookings) :
        \A j \in PaymentsOf(payments, i) :
            payments[j].amount = Deposit
            => IntentAmount(payments[j].stripePaymentId) = Deposit * 100

\* C39. The reminder's duplicate check matches only ledger records that
\* carry both the Booking's id and the kind REMINDER: when the job comes to
\* a Booking of a consenting customer, it skips the Booking exactly when a
\* REMINDER record of that Booking is in the ledger; the confirmations of
\* the Booking and the REMINDER records of other Bookings never make it skip.
C39_HasReminder(bookingId) ==
    \E ch \in {"EMAIL", "SMS"} : BagIn(Reminder(ch, bookingId), notifications)
C39_DedupMatchesIdAndKind ==
    [][\A r \in Runs :
         (/\ rem[r].pc = "send" /\ rem[r].queue # <<>>
          /\ rem'[r] # rem[r]
          /\ Head(rem[r].queue).customer.notificationConsent)
         => IF C39_HasReminder(Head(rem[r].queue).id)
            THEN rem'[r].pc = "send" /\ rem'[r].queue = Tail(rem[r].queue)
            ELSE rem'[r].pc = "email" /\ rem'[r].queue = rem[r].queue
      ]_vars
\* The job goes on to enqueue the reminder of Booking 2 although the ledger
\* holds the confirmations of Booking 2 and the REMINDER records of Booking 1.
C39_Witness ==
    \E r \in Runs :
        /\ rem[r].pc = "email" /\ Head(rem[r].queue).id = 2
        /\ BagIn(Confirmation("EMAIL", 2), notifications)
        /\ BagIn(Confirmation("SMS", 2), notifications)
        /\ BagIn(Reminder("EMAIL", 1), notifications)
        /\ BagIn(Reminder("SMS", 1), notifications)
        /\ ~C39_HasReminder(2)

====
